---- MODULE Spec2Model ----
(***************************************************************************)
(* A model of the 220 kV grid fault simulator: the network model (Grid),   *)
(* the fault simulator (FaultSimulator), the two detectors, the control    *)
(* flow of the Newton-Raphson solver and the handlers of the application.  *)
(*                                                                         *)
(* Python dicts keep insertion order, so a dict of objects is a sequence   *)
(* of records carrying their key in the field id (DictPut replaces in      *)
(* place, as assignment to an existing key does).  Positions along a line  *)
(* are counted in tenths of the line (0.5 is 5).  A matrix entry is the    *)
(* pair [y, b]: y counts the series admittance in units of the admittance  *)
(* of a line of LengthLcm km, b the half shunt susceptance in units of     *)
(* that of a 1 km line; sums of line contributions are exact in this form. *)
(***************************************************************************)
EXTENDS Integers, Sequences, FiniteSets, TLC

VARIABLES grid, faults, active_faults, fault_currents, pf, op, det,
          current_fault

vars == <<grid, faults, active_faults, fault_currents, pf, op, det,
          current_fault>>

(***************************************************************************)
(* Bounds of the model.                                                    *)
(***************************************************************************)
MaxBus == 3
MaxLine == 2
MaxFaults == 2

MaxGridBus == 2

BusKeys == 1..MaxBus
LineKeys == 1..MaxLine
GridBusKeys == 1..MaxGridBus

None == "None"
FaultType == {"slg", "ll", "dlg", "lll", "open"}
FaultTypeInputs == {"slg", "open"}

DefaultFaultLocation == 5
PositionOne == 10
PositionZero == 0

(***************************************************************************)
(* Dict helpers.                                                           *)
(***************************************************************************)
DictKeys(d) == {d[i].id : i \in DOMAIN d}

DictGet(d, k) == d[CHOOSE i \in DOMAIN d : d[i].id = k]

DictPut(d, v) ==
    IF v.id \in DictKeys(d)
    THEN [i \in DOMAIN d |-> IF d[i].id = v.id THEN v ELSE d[i]]
    ELSE Append(d, v)

SeqElems(s) == {s[i] : i \in DOMAIN s}

(***************************************************************************)
(* Bus and TransmissionLine objects.                                       *)
(***************************************************************************)
\* voltage_pu is counted in hundredths of a per-unit.  An angle is a float
\* of degrees (or radians): deg whole degrees and ulps units in the last
\* place away from it.
NominalVoltagePu == 100
Angle(deg, ulps) == [deg |-> deg, ulps |-> ulps]

Bus(bus_id) ==
    [id |-> bus_id, bus_type |-> "pq",
     voltage_pu |-> NominalVoltagePu, angle_deg |-> Angle(0, 0),
     p_gen |-> 0, q_gen |-> 0, p_load |-> 0, q_load |-> 0,
     is_faulted |-> FALSE, fault_type |-> None]

p_net(bus) == bus.p_gen - bus.p_load
q_net(bus) == bus.q_gen - bus.q_load

set_as_generator(bus, p_gen, q_gen, v_setpoint) ==
    [bus EXCEPT !.bus_type = "pv", !.p_gen = p_gen, !.q_gen = q_gen,
                !.voltage_pu = v_setpoint]

set_as_load(bus, p_load, q_load) ==
    [bus EXCEPT !.bus_type = "pq", !.p_load = p_load, !.q_load = q_load]

set_as_slack(bus, voltage_pu, angle_deg) ==
    [bus EXCEPT !.bus_type = "slack", !.voltage_pu = voltage_pu,
                !.angle_deg = angle_deg]

BusApplyFault(bus, fault_type) ==
    [bus EXCEPT !.is_faulted = TRUE, !.fault_type = fault_type]

BusClearFault(bus) ==
    [bus EXCEPT !.is_faulted = FALSE, !.fault_type = None]

TransmissionLine(line_id, from_bus, to_bus, length_km) ==
    [id |-> line_id, from_bus |-> from_bus, to_bus |-> to_bus,
     length_km |-> length_km,
     is_closed |-> TRUE, is_faulted |-> FALSE, fault_type |-> None,
     fault_location |-> DefaultFaultLocation,
     current_pu |-> 0, power_flow_mw |-> 0, loading_percent |-> 0]

Clamp(position) ==
    LET lo == IF PositionOne < position THEN PositionOne ELSE position
    IN  IF PositionZero > lo THEN PositionZero ELSE lo

open_line(line) == [line EXCEPT !.is_closed = FALSE]

close_line(line) ==
    [line EXCEPT !.is_closed = TRUE, !.is_faulted = FALSE, !.fault_type = None]

apply_fault(line, fault_type, location) ==
    [line EXCEPT !.is_faulted = TRUE, !.fault_type = fault_type,
                 !.fault_location = Clamp(location)]

clear_fault(line) ==
    [line EXCEPT !.is_faulted = FALSE, !.fault_type = None]

(***************************************************************************)
(* Grid.                                                                   *)
(***************************************************************************)
NoMatrix == [n |-> -1, m |-> <<>>]

EmptyGrid ==
    [buses |-> <<>>, lines |-> <<>>, adjacency |-> <<>>,
     y_bus |-> NoMatrix, y_bus_valid |-> FALSE]

add_bus(g, bus) ==
    [g EXCEPT !.buses = DictPut(@, bus),
              !.adjacency = [k \in (DOMAIN @) \cup {bus.id} |->
                                IF k = bus.id THEN <<>> ELSE @[k]],
              !.y_bus_valid = FALSE]

\* add_line: the result is the grid left behind and whether KeyError was raised.
add_line(g, line) ==
    LET g1 == [g EXCEPT !.lines = DictPut(@, line)]
        from_id == line.from_bus
        to_id == line.to_bus
    IN  IF from_id \notin DOMAIN g1.adjacency
        THEN [grid |-> g1, raised |-> TRUE]
        ELSE LET adj1 == IF to_id \notin SeqElems(g1.adjacency[from_id])
                         THEN [g1.adjacency EXCEPT ![from_id] = Append(@, to_id)]
                         ELSE g1.adjacency
             IN  IF to_id \notin DOMAIN adj1
                 THEN [grid |-> [g1 EXCEPT !.adjacency = adj1], raised |-> TRUE]
                 ELSE LET adj2 == IF from_id \notin SeqElems(adj1[to_id])
                                  THEN [adj1 EXCEPT ![to_id] = Append(@, from_id)]
                                  ELSE adj1
                      IN  [grid |-> [g1 EXCEPT !.adjacency = adj2,
                                               !.y_bus_valid = FALSE],
                           raised |-> FALSE]

get_bus_keys(g) == DictKeys(g.buses)

n_buses(g) == Len(g.buses)

\* Matrix rows follow the bus keys sorted ascending, counted from 0.
bus_id_to_idx(g, bus_id) == Cardinality({k \in get_bus_keys(g) : k < bus_id})

\* Line l is offered with a length of its own, so that the lines are told
\* apart in a matrix.
LineLength(line_id) == IF line_id = 1 THEN 100 ELSE 200
LengthLcm == 100 * 200

\* y_pu = 1 / z_pu with z_pu proportional to the length; b_pu / 2 proportional
\* to the length.
y_pu(line) == LengthLcm \div line.length_km
half_b_pu(line) == line.length_km

ZeroEntry == [y |-> 0, b |-> 0]

ZeroMatrix(n) ==
    [n |-> n, m |-> [ij \in (0..(n - 1)) \X (0..(n - 1)) |-> ZeroEntry]]

\* Stamp without the assignment to Y[j][i].
Stamp_one_sided(m, i, j, y, b) ==
    LET m1 == [m  EXCEPT ![<<i, j>>] = [@ EXCEPT !.y = @ - y]]
        m3 == [m1 EXCEPT ![<<i, i>>] = [y |-> @.y + y, b |-> @.b + b]]
        m4 == [m3 EXCEPT ![<<j, j>>] = [y |-> @.y + y, b |-> @.b + b]]
    IN  m4

\* One closed line's contribution, in the order of the four assignments.
Stamp(m, i, j, y, b) ==
    LET m1 == [m  EXCEPT ![<<i, j>>] = [@ EXCEPT !.y = @ - y]]
        m2 == [m1 EXCEPT ![<<j, i>>] = [@ EXCEPT !.y = @ - y]]
        m3 == [m2 EXCEPT ![<<i, i>>] = [y |-> @.y + y, b |-> @.b + b]]
        m4 == [m3 EXCEPT ![<<j, j>>] = [y |-> @.y + y, b |-> @.b + b]]
    IN  m4

\* The loop over grid.lines.values(): open lines are skipped; a closed line
\* with an endpoint that is no bus key raises KeyError at the index lookup.
RECURSIVE AssembleLoop(_, _, _, _)
AssembleLoop(g, k, acc, with_shunt) ==
    IF k > Len(g.lines) THEN [m |-> acc, raised |-> FALSE]
    ELSE LET line == g.lines[k]
         IN  IF ~line.is_closed THEN AssembleLoop(g, k + 1, acc, with_shunt)
             ELSE IF line.from_bus \notin get_bus_keys(g)
                     \/ line.to_bus \notin get_bus_keys(g)
             THEN [m |-> acc, raised |-> TRUE]
             ELSE AssembleLoop(g, k + 1,
                      [acc EXCEPT !.m = Stamp(@, bus_id_to_idx(g, line.from_bus),
                                              bus_id_to_idx(g, line.to_bus),
                                              y_pu(line),
                                              IF with_shunt THEN half_b_pu(line) ELSE 0)],
                      with_shunt)

build_y_bus(g) ==
    IF g.y_bus_valid /\ g.y_bus # NoMatrix
    THEN [grid |-> g, ret |-> g.y_bus, raised |-> FALSE]
    ELSE LET r == AssembleLoop(g, 1, ZeroMatrix(n_buses(g)), TRUE)
         IN  IF r.raised
             THEN [grid |-> g, ret |-> NoMatrix, raised |-> TRUE]
             ELSE [grid |-> [g EXCEPT !.y_bus = r.m, !.y_bus_valid = TRUE],
                   ret |-> r.m, raised |-> FALSE]

\* Z-bus is the inverse of the Y-bus it was handed (with the 1e-10
\* regularisation when singular): a function of that matrix alone.
build_z_bus(g) == build_y_bus(g)

\* (Z0, Z1, Z2): Z1 from build_z_bus, Z2 its copy, Z0 from a zero-sequence
\* admittance matrix assembled here from the lines closed now, without shunt.
\* Each is represented by the admittance matrix it inverts.
build_sequence_networks(g) ==
    LET r1 == build_z_bus(g)
    IN  IF r1.raised
        THEN [grid |-> r1.grid, raised |-> TRUE,
              z0 |-> NoMatrix, z1 |-> NoMatrix, z2 |-> NoMatrix]
        ELSE LET r0 == AssembleLoop(r1.grid, 1, ZeroMatrix(n_buses(g)), FALSE)
             IN  IF r0.raised
                 THEN [grid |-> r1.grid, raised |-> TRUE,
                       z0 |-> NoMatrix, z1 |-> NoMatrix, z2 |-> NoMatrix]
                 ELSE [grid |-> r1.grid, raised |-> FALSE,
                       z0 |-> r0.m, z1 |-> r1.ret, z2 |-> r1.ret]

grid_clear_all_faults(g) ==
    [g EXCEPT !.buses = [i \in DOMAIN @ |-> BusClearFault(@[i])],
              !.lines = [i \in DOMAIN @ |->
                            LET l == clear_fault(@[i])
                            IN  IF ~l.is_closed THEN close_line(l) ELSE l]]

invalidate_matrices(g) == [g EXCEPT !.y_bus_valid = FALSE]

get_neighbors(g, bus_id) ==
    IF bus_id \in DOMAIN g.adjacency THEN g.adjacency[bus_id] ELSE <<>>

LineJoins(line, bus1_id, bus2_id) ==
    \/ line.from_bus = bus1_id /\ line.to_bus = bus2_id
    \/ line.from_bus = bus2_id /\ line.to_bus = bus1_id

\* The position in grid.lines of the first line joining the two buses, 0 for None.
get_line_between(g, bus1_id, bus2_id) ==
    LET hits == {k \in DOMAIN g.lines : LineJoins(g.lines[k], bus1_id, bus2_id)}
    IN  IF hits = {} THEN 0 ELSE CHOOSE k \in hits : \A h \in hits : k <= h

get_connected_lines(g, bus_id) ==
    {k \in DOMAIN g.lines :
        g.lines[k].from_bus = bus_id \/ g.lines[k].to_bus = bus_id}

(***************************************************************************)
(* GraphBasedDetector.get_network_sections.                                *)
(***************************************************************************)
\* Traversable without the breaker test.
Traversable_any_line(g, current, neighbor, visited) ==
    get_line_between(g, current, neighbor) # 0 /\ neighbor \notin visited

Traversable(g, current, neighbor, visited) ==
    LET k == get_line_between(g, current, neighbor)
    IN  k # 0 /\ g.lines[k].is_closed /\ neighbor \notin visited

RECURSIVE BfsLoop(_, _, _, _)
BfsLoop(g, queue, visited, section) ==
    IF queue = <<>> THEN [visited |-> visited, section |-> section]
    ELSE LET current == Head(queue)
         IN  IF current \in visited
             THEN BfsLoop(g, Tail(queue), visited, section)
             ELSE LET v1 == visited \cup {current}
                      more == SelectSeq(get_neighbors(g, current),
                                  LAMBDA nb : Traversable(g, current, nb, v1))
                  IN  BfsLoop(g, Tail(queue) \o more, v1, section \cup {current})

RECURSIVE SectionsLoop(_, _, _, _)
SectionsLoop(g, k, visited, sections) ==
    IF k > Len(g.buses) THEN sections
    ELSE LET bus_id == g.buses[k].id
         IN  IF bus_id \in visited
             THEN SectionsLoop(g, k + 1, visited, sections)
             ELSE LET r == BfsLoop(g, <<bus_id>>, visited, {})
                  IN  SectionsLoop(g, k + 1, r.visited,
                          IF r.section # {} THEN Append(sections, r.section)
                          ELSE sections)

get_network_sections(g) == SectionsLoop(g, 1, {}, <<>>)

NoNets == [z0 |-> NoMatrix, z1 |-> NoMatrix, z2 |-> NoMatrix]

(***************************************************************************)
(* Fault objects and the FaultSimulator.  A Fault object is its position   *)
(* in the sequence faults (its identity); == on Faults is the dataclass's  *)
(* field-wise equality.  The simulator's operations act on the record      *)
(* w = [grid, faults, active_faults, fault_currents].                      *)
(***************************************************************************)
DefaultPosition == 5

\* A quotient of two integers (positions estimated by the detectors, reach
\* ratios); NoEstimate stands for None.
Ratio(num, den) == [num |-> num, den |-> den]
NoEstimate == Ratio(0, 0)

Fault(fault_type, location_type, element_id, position, resistance) ==
    [fault_type |-> fault_type, location_type |-> location_type,
     element_id |-> element_id, position |-> position,
     resistance |-> resistance, is_active |-> TRUE,
     detected |-> FALSE, detected_location |-> NoEstimate]

is_bus_fault(fault) == fault.location_type = "bus"

\* The stored phase currents: zero for OpenCircuitFault, otherwise what the
\* fault model named here makes of the Thevenin impedances at row idx of the
\* sequence networks (which the call's result reports as nets), the line
\* impedance up to position, and the fault resistance.
FaultCurrent(fault, idx, position) ==
    [zero |-> fault.fault_type = "open", model |-> fault.fault_type,
     idx |-> idx, position |-> position, z_f |-> fault.resistance]

inject_bus_fault(w, bus_id, fault_type, resistance) ==
    IF bus_id \notin get_bus_keys(w.grid)
    THEN [w |-> w, ret |-> 0, raised |-> FALSE, nets |-> NoNets]
    ELSE LET fault == Fault(fault_type, "bus", bus_id, DefaultPosition, resistance)
             g1 == [w.grid EXCEPT !.buses =
                       DictPut(@, BusApplyFault(DictGet(@, bus_id), fault_type))]
             nets == build_sequence_networks(g1)
             f == Len(w.faults) + 1
         IN  IF nets.raised
             THEN [w |-> [w EXCEPT !.grid = nets.grid], ret |-> 0,
                   raised |-> TRUE, nets |-> NoNets]
             ELSE [w |-> [grid |-> nets.grid,
                          faults |-> Append(w.faults, fault),
                          active_faults |-> Append(w.active_faults, f),
                          fault_currents |->
                              [k \in (DOMAIN w.fault_currents) \cup {f} |->
                                  IF k = f
                                  THEN FaultCurrent(fault, bus_id_to_idx(g1, bus_id), 0)
                                  ELSE w.fault_currents[k]]],
                   ret |-> f, raised |-> FALSE,
                   nets |-> [z0 |-> nets.z0, z1 |-> nets.z1, z2 |-> nets.z2]]

\* inject_line_fault recording the Fault before looking the line up.
inject_line_fault_records_first(w, line_id, fault_type, position, resistance) ==
    LET fault == Fault(fault_type, "line", line_id, Clamp(position), resistance)
    IN  [w |-> [w EXCEPT !.faults = Append(@, fault),
                         !.active_faults = Append(@, Len(w.faults) + 1)],
         ret |-> 0, raised |-> FALSE, nets |-> NoNets]

inject_line_fault(w, line_id, fault_type, position, resistance) ==
    IF line_id \notin DictKeys(w.grid.lines)
    THEN [w |-> w, ret |-> 0, raised |-> FALSE, nets |-> NoNets]
    ELSE LET pos == Clamp(position)
             fault == Fault(fault_type, "line", line_id, pos, resistance)
             line0 == DictGet(w.grid.lines, line_id)
             line1 == IF fault_type = "open" THEN open_line(line0) ELSE line0
             line2 == apply_fault(line1, fault_type, pos)
             g1 == [w.grid EXCEPT !.lines = DictPut(@, line2)]
             nets == build_sequence_networks(g1)
             f == Len(w.faults) + 1
         IN  IF nets.raised
             THEN [w |-> [w EXCEPT !.grid = nets.grid], ret |-> 0,
                   raised |-> TRUE, nets |-> NoNets]
             ELSE [w |-> [grid |-> nets.grid,
                          faults |-> Append(w.faults, fault),
                          active_faults |-> Append(w.active_faults, f),
                          fault_currents |->
                              \* no current is stored when the from-bus has no row
                              IF line2.from_bus \notin get_bus_keys(g1)
                              THEN w.fault_currents
                              ELSE [k \in (DOMAIN w.fault_currents) \cup {f} |->
                                      IF k = f
                                      THEN FaultCurrent(fault,
                                               bus_id_to_idx(g1, line2.from_bus), pos)
                                      ELSE w.fault_currents[k]]],
                   ret |-> f, raised |-> FALSE,
                   nets |-> [z0 |-> nets.z0, z1 |-> nets.z1, z2 |-> nets.z2]]

\* list.remove(x): drops the first element that is x or equals x.
ListRemove(w_faults, lst, f) ==
    LET hits == {i \in DOMAIN lst : lst[i] = f \/ w_faults[lst[i]] = w_faults[f]}
    IN  IF hits = {} THEN lst
        ELSE LET i == CHOOSE h \in hits : \A x \in hits : h <= x
             IN  SubSeq(lst, 1, i - 1) \o SubSeq(lst, i + 1, Len(lst))

\* sim_clear_fault without re-closing the line of an OPEN fault.
sim_clear_fault_no_reclose(w, f) ==
    LET faults1 == [w.faults EXCEPT ![f].is_active = FALSE]
        fault == faults1[f]
        g1 == IF is_bus_fault(fault)
              THEN IF fault.element_id \in get_bus_keys(w.grid)
                   THEN [w.grid EXCEPT !.buses =
                            DictPut(@, BusClearFault(DictGet(@, fault.element_id)))]
                   ELSE w.grid
              ELSE IF fault.element_id \in DictKeys(w.grid.lines)
                   THEN [w.grid EXCEPT !.lines =
                            DictPut(@, clear_fault(DictGet(@, fault.element_id)))]
                   ELSE w.grid
    IN  [w EXCEPT !.grid = g1, !.faults = faults1,
                  !.active_faults = ListRemove(faults1, @, f)]

sim_clear_fault(w, f) ==
    LET faults1 == [w.faults EXCEPT ![f].is_active = FALSE]
        fault == faults1[f]
        g1 == IF is_bus_fault(fault)
              THEN IF fault.element_id \in get_bus_keys(w.grid)
                   THEN [w.grid EXCEPT !.buses =
                            DictPut(@, BusClearFault(DictGet(@, fault.element_id)))]
                   ELSE w.grid
              ELSE IF fault.element_id \in DictKeys(w.grid.lines)
                   THEN LET l1 == clear_fault(DictGet(w.grid.lines, fault.element_id))
                            l2 == IF fault.fault_type = "open" THEN close_line(l1) ELSE l1
                        IN  [w.grid EXCEPT !.lines = DictPut(@, l2)]
                   ELSE w.grid
    IN  [w EXCEPT !.grid = g1, !.faults = faults1,
                  !.active_faults = ListRemove(faults1, @, f)]

RECURSIVE ClearEach(_, _, _)
ClearEach(w, copy, k) ==
    IF k > Len(copy) THEN w ELSE ClearEach(sim_clear_fault(w, copy[k]), copy, k + 1)

\* sim_clear_all_faults without fault_currents.clear().
sim_clear_all_faults_keep_currents(w) ==
    LET w1 == ClearEach(w, w.active_faults, 1)
    IN  [w1 EXCEPT !.active_faults = <<>>, !.grid = grid_clear_all_faults(@)]

sim_clear_all_faults(w) ==
    LET w1 == ClearEach(w, w.active_faults, 1)
    IN  [w1 EXCEPT !.active_faults = <<>>, !.fault_currents = <<>>,
                   !.grid = grid_clear_all_faults(@)]

(***************************************************************************)
(* PowerFlow.  The control flow of solve is exact; the arithmetic of one   *)
(* Newton-Raphson iteration is left open: whether the largest mismatch is  *)
(* below the tolerance and which corrections the linear solve returns are  *)
(* drawn from small sets, except where the network decides them.           *)
(***************************************************************************)
MaxIterations == 2
CorrectionInputs == {-1, 1}

\* np.radians and np.degrees multiply by pi/180 and 180/pi in binary64.
\* 0.0 survives the round trip; 30.0 becomes 0.5235987755982988, which
\* comes back as 29.999999999999996, one unit in the last place below 30.0,
\* and that value maps to the same radians again.
radians(a) == IF a.deg = 30 /\ a.ulps \in {-1, 0} THEN Angle(30, 0) ELSE a
degrees(r) == IF r.deg = 30 /\ r.ulps = 0 THEN Angle(30, -1) ELSE r

\* The solver object.  solves counts the calls of solve made on it; solved
\* remembers the Y-bus and bus data the last converged call ended on.
NoContext == [y |-> NoMatrix, buses |-> <<>>]

PowerFlow(max_iterations) ==
    [max_iterations |-> max_iterations,
     converged |-> FALSE, iterations |-> 0, mismatch |-> "inf",
     solves |-> 0, solved |-> NoContext]

Electrical(bus) ==
    [id |-> bus.id, bus_type |-> bus.bus_type,
     voltage_pu |-> bus.voltage_pu, angle_deg |-> bus.angle_deg,
     p_net |-> p_net(bus), q_net |-> q_net(bus)]

SolveContext(y_bus, g) ==
    [y |-> y_bus, buses |-> [i \in DOMAIN g.buses |-> Electrical(g.buses[i])]]

BusAtIdx(g, idx) ==
    CHOOSE i \in DOMAIN g.buses : bus_id_to_idx(g, g.buses[i].id) = idx

\* The classification loop: the last slack bus met wins, -1 stands for None.
slack_idx(g) ==
    LET hits == {i \in DOMAIN g.buses : g.buses[i].bus_type = "slack"}
    IN  IF hits = {} THEN -1
        ELSE bus_id_to_idx(g, g.buses[CHOOSE i \in hits : \A h \in hits : h <= i].id)

pv_indices(g) ==
    {bus_id_to_idx(g, g.buses[i].id) :
        i \in {k \in DOMAIN g.buses : g.buses[k].bus_type = "pv"}}

pq_indices(g) ==
    {bus_id_to_idx(g, g.buses[i].id) :
        i \in {k \in DOMAIN g.buses : g.buses[k].bus_type \notin {"slack", "pv"}}}

non_slack(g) == (0..(n_buses(g) - 1)) \ {slack_idx(g)}

RowZero(y_bus, idx) ==
    \A j \in 0..(y_bus.n - 1) : y_bus.m[<<idx, j>>] = ZeroEntry

\* A bus whose Y-bus row is zero has calculated injections of zero whatever
\* the voltages are, so a specified injection of a whole MW or more leaves a
\* mismatch of at least 0.01 pu in every iteration.
ForcedMismatch(y_bus, g) ==
    \E idx \in non_slack(g) :
        LET bus == g.buses[BusAtIdx(g, idx)]
        IN  /\ RowZero(y_bus, idx)
            /\ \/ p_net(bus) # 0
               \/ idx \in pq_indices(g) /\ q_net(bus) # 0

\* The outcomes of "self.mismatch < self.tolerance" in iteration k (from 0).
\* The first test of a call that starts where a converged call ended, on the
\* same Y-bus and bus data, passes again.
MismatchBelow(pfr, y_bus, g, k) ==
    IF ForcedMismatch(y_bus, g) THEN {FALSE}
    ELSE IF k = 0 /\ pfr.solved = SolveContext(y_bus, g) THEN {TRUE}
    ELSE {TRUE, FALSE}

\* Apply corrections: angles of the non-slack buses, magnitudes of the PQ buses.
Corrected(g, v, d_ang, d_mag) ==
    [v_mag |-> [idx \in DOMAIN v.v_mag |->
                   IF idx \in pq_indices(g) THEN v.v_mag[idx] + d_mag[idx]
                   ELSE v.v_mag[idx]],
     v_ang |-> [idx \in DOMAIN v.v_ang |->
                   IF idx \in non_slack(g)
                   THEN [v.v_ang[idx] EXCEPT !.deg = @ + d_ang[idx]]
                   ELSE v.v_ang[idx]]]

\* The iteration loop from iteration k on: the set of ways it can end, each
\* the last iterate and the iteration (counted from 1) whose test passed,
\* 0 when the loop ran out.
RECURSIVE IterationLoop(_, _, _, _, _)
IterationLoop(pfr, y_bus, g, k, v) ==
    IF k >= pfr.max_iterations THEN {[v |-> v, met |-> 0]}
    ELSE UNION {
           IF below THEN {[v |-> v, met |-> k + 1]}
           ELSE UNION { IterationLoop(pfr, y_bus, g, k + 1,
                                      Corrected(g, v, d_ang, d_mag)) :
                          d_ang \in [non_slack(g) -> CorrectionInputs],
                          d_mag \in [pq_indices(g) -> CorrectionInputs] }
           : below \in MismatchBelow(pfr, y_bus, g, k) }

\* A flow quantity is recorded as 0 or as NonZero.
NonZero == 1

update_loading(line, current_pu, power_mw) ==
    [line EXCEPT !.current_pu = current_pu, !.power_flow_mw = power_mw,
                 !.loading_percent = IF power_mw = 0 THEN 0 ELSE NonZero]

\* _calculate_line_flows: an open line is set to zero; a closed line gets
\* (v_i - v_j) * y, zero when the two phasors are equal; the index lookup of
\* an endpoint that is no bus key raises KeyError.
RECURSIVE LineFlowsLoop(_, _, _)
LineFlowsLoop(g, v, k) ==
    IF k > Len(g.lines) THEN [grid |-> g, raised |-> FALSE]
    ELSE LET line == g.lines[k]
         IN  IF ~line.is_closed
             THEN LineFlowsLoop([g EXCEPT !.lines[k] = update_loading(line, 0, 0)],
                                v, k + 1)
             ELSE IF line.from_bus \notin get_bus_keys(g)
                     \/ line.to_bus \notin get_bus_keys(g)
             THEN [grid |-> g, raised |-> TRUE]
             ELSE LET i == bus_id_to_idx(g, line.from_bus)
                      j == bus_id_to_idx(g, line.to_bus)
                      flow == IF v.v_mag[i] = v.v_mag[j] /\ v.v_ang[i] = v.v_ang[j]
                              THEN 0 ELSE NonZero
                  IN  LineFlowsLoop([g EXCEPT !.lines[k] =
                                        update_loading(line, flow, flow)],
                                    v, k + 1)

\* solve from the write-back on, for one way e the iteration loop ended.
SolveEnd(pfr, y_bus, g, e) ==
    LET pf1 == IF e.met > 0
               THEN [pfr EXCEPT !.converged = TRUE, !.iterations = e.met,
                                !.mismatch = "below"]
               ELSE IF pfr.max_iterations > 0
                    THEN [pfr EXCEPT !.mismatch = "above"]
                    ELSE pfr
        g1 == [g EXCEPT !.buses = [i \in DOMAIN @ |->
                  LET idx == bus_id_to_idx(g, @[i].id)
                  IN  [@[i] EXCEPT !.voltage_pu = e.v.v_mag[idx],
                                   !.angle_deg = degrees(e.v.v_ang[idx])]]]
        r == LineFlowsLoop(g1, e.v, 1)
        pf2 == [pf1 EXCEPT !.solves = @ + 1,
                           !.solved = IF e.met > 0 /\ ~r.raised
                                      THEN SolveContext(y_bus, r.grid) ELSE @]
    IN  [grid |-> r.grid, pf |-> pf2, raised |-> r.raised,
         ret |-> pf2.converged, met |-> e.met]

\* PowerFlow.solve: the set of its outcomes.  It raises when build_y_bus
\* does, and when the mismatch vector of the first iteration is empty
\* (np.max of an empty array).
solve(pfr, g) ==
    LET r == build_y_bus(g)
        g1 == r.grid
        v0 == [v_mag |-> [idx \in 0..(n_buses(g1) - 1) |->
                             g1.buses[BusAtIdx(g1, idx)].voltage_pu],
               v_ang |-> [idx \in 0..(n_buses(g1) - 1) |->
                             radians(g1.buses[BusAtIdx(g1, idx)].angle_deg)]]
        failed == [grid |-> g1, pf |-> [pfr EXCEPT !.solves = @ + 1],
                   raised |-> TRUE, ret |-> FALSE, met |-> 0]
    IN  IF r.raised THEN {failed}
        ELSE IF pfr.max_iterations > 0 /\ non_slack(g1) = {} /\ pq_indices(g1) = {}
        THEN {failed}
        ELSE {SolveEnd(pfr, r.ret, g1, e) : e \in IterationLoop(pfr, r.ret, g1, 0, v0)}

(***************************************************************************)
(* Detectors.  A reach ratio, an estimated position and a confidence are   *)
(* quotients Ratio(num, den) with den > 0; a den of 0 stands for infinity  *)
(* (or, as NoEstimate, for None).  A line reads its end buses through the  *)
(* Bus objects it was built with: these are the grid's buses of the same   *)
(* id as long as no bus is added twice, and a Bus that was never added     *)
(* keeps its initial values.                                               *)
(***************************************************************************)
RatLeq(a, b) == a.num * b.den <= b.num * a.den
RatLess(a, b) == a.num * b.den < b.num * a.den
RatEq(a, b) == a.num * b.den = b.num * a.den
Infinite == Ratio(1, 0)
IsInfinite(r) == r.den = 0

ZONE1_REACH == Ratio(80, 100)
ZONE2_REACH == Ratio(120, 100)
ZONE3_REACH == Ratio(150, 100)
SkipReach == Ratio(2, 1)
One == Ratio(1, 1)
Half == Ratio(1, 2)

Abs(x) == IF x < 0 THEN 0 - x ELSE x

LineEndBus(g, bus_id) ==
    IF bus_id \in get_bus_keys(g) THEN DictGet(g.buses, bus_id) ELSE Bus(bus_id)

\* |z_line| of a line of length_km is 0.000768 pu per km, so the 1e-6 pu that
\* a bolted fault at position 0 is measured as is 1 / (768 * length_km) of it.
ZPerKmMicro == 768
\* The quotient v / (v / z) is z up to the rounding of two divisions: the
\* reach of a bolted fault at alpha > 0 is alpha or a neighbour of it, kept
\* apart here by one part in RoundingScale.
RoundingScale == 1000
\* The reach added by a fault resistance is not computed: one of these, in
\* tenths of the line.
ResistiveReachInputs == {1, 10}

\* FaultReach with the impedance of the rest of the line, from the fault to
\* the to-bus.
FaultReach_from_far_end(line, fault, v_from) ==
    {Ratio(PositionOne - line.fault_location, PositionOne)}

\* The reach ratios the measurement of the line the fault is on can have.
FaultReach(line, fault, v_from) ==
    IF v_from.voltage_pu = 0 THEN {Infinite}
    ELSE IF fault.resistance = 0
    THEN IF line.fault_location = 0
         THEN {Ratio(1, ZPerKmMicro * line.length_km)}
         ELSE {Ratio(line.fault_location * RoundingScale + d, 10 * RoundingScale) :
                  d \in {-1, 0, 1}}
    ELSE {Ratio(line.fault_location + d, 10) : d \in ResistiveReachInputs}

\* The reach ratios of a line in normal operation: |v_from| / |v_from - v_to|,
\* infinite when no current flows.  With different angles the difference is
\* not computed: it lies between the difference and the sum of the magnitudes.
NormalReach(v_from, v_to) ==
    LET a == Abs(v_from.voltage_pu)
        b == Abs(v_to.voltage_pu)
    IN  IF v_from.voltage_pu = v_to.voltage_pu /\ v_from.angle_deg = v_to.angle_deg
        THEN {Infinite}
        ELSE IF v_from.angle_deg = v_to.angle_deg
        THEN {Ratio(a, Abs(v_from.voltage_pu - v_to.voltage_pu))}
        ELSE {Ratio(a, a + b), Ratio(a, Abs(a - b))}

Measured(line) == line.is_closed \/ line.is_faulted

\* simulate_measurements, line by line: f is the Fault handed in (0 for
\* None).  The result is the set of measurement dicts it can leave, each a
\* sequence of [line_id, reach] in the order of grid.lines.
RECURSIVE MeasureLoop(_, _, _, _)
MeasureLoop(w, f, k, acc) ==
    IF k > Len(w.grid.lines) THEN {acc}
    ELSE LET line == w.grid.lines[k]
             v_from == LineEndBus(w.grid, line.from_bus)
             v_to == LineEndBus(w.grid, line.to_bus)
             reaches == IF line.is_faulted /\ f # 0 /\ w.faults[f].element_id = line.id
                        THEN FaultReach(line, w.faults[f], v_from)
                        ELSE NormalReach(v_from, v_to)
         IN  IF ~Measured(line) THEN MeasureLoop(w, f, k + 1, acc)
             ELSE UNION { MeasureLoop(w, f, k + 1,
                              Append(acc, [line_id |-> line.id, reach |-> r])) :
                          r \in reaches }

simulate_measurements(w, f) == MeasureLoop(w, f, 1, <<>>)

\* Zone with the zone-1 boundary left to zone 2.
Zone_open_boundary(reach_ratio) ==
    IF IsInfinite(reach_ratio) THEN 0
    ELSE IF RatLess(reach_ratio, ZONE1_REACH) THEN 1
    ELSE IF RatLeq(reach_ratio, ZONE2_REACH) THEN 2
    ELSE IF RatLeq(reach_ratio, ZONE3_REACH) THEN 3
    ELSE 0

Zone(reach_ratio) ==
    IF IsInfinite(reach_ratio) THEN 0
    ELSE IF RatLeq(reach_ratio, ZONE1_REACH) THEN 1
    ELSE IF RatLeq(reach_ratio, ZONE2_REACH) THEN 2
    ELSE IF RatLeq(reach_ratio, ZONE3_REACH) THEN 3
    ELSE 0

\* abs(z_apparent) > abs(z_line) * 2
Skipped(reach_ratio) == IsInfinite(reach_ratio) \/ RatLess(SkipReach, reach_ratio)

RatMin(a, b) == IF RatLeq(a, b) THEN a ELSE b
RatMax(a, b) == IF RatLeq(a, b) THEN b ELSE a

\* 0.95 - (rho / 0.80) * 0.1;  0.8 - ((rho - 0.80) / 0.40) * 0.1 = 1 - rho / 4;
\* 0.6 - ((rho - 1.20) / 0.30) * 0.1 = 1 - rho / 3;  then max(0.1, .).
Confidence(zone, rho) ==
    LET c == IF zone = 1 THEN Ratio(152 * rho.den - 20 * rho.num, 160 * rho.den)
             ELSE IF zone = 2 THEN Ratio(4 * rho.den - rho.num, 4 * rho.den)
             ELSE Ratio(3 * rho.den - rho.num, 3 * rho.den)
    IN  RatMax(Ratio(1, 10), c)

NoDetection ==
    [detector |-> "none", detected |-> FALSE, line_id |-> 0, bus_id |-> 0,
     estimated_position |-> NoEstimate, zone |-> 0, confidence |-> Ratio(0, 1),
     fault_sections |-> <<>>, measurements |-> <<>>,
     from_bus_id |-> 0, to_bus_id |-> 0, path |-> <<>>]

is_line_fault(fault) == fault.location_type = "line"

\* The first entry of the measurements that picks up, 0 if none does.
FirstPickup(w, measurements) ==
    LET hits == {i \in DOMAIN measurements :
                    /\ measurements[i].line_id \in DictKeys(w.grid.lines)
                    /\ ~Skipped(measurements[i].reach)
                    /\ Zone(measurements[i].reach) # 0}
    IN  IF hits = {} THEN 0 ELSE CHOOSE i \in hits : \A h \in hits : i <= h

\* ImpedanceBasedDetector.detect_fault(f) for one outcome of the
\* measurements: the simulator state left behind and the result.
impedance_detect_with(w, f, measurements) ==
    LET miss == [NoDetection EXCEPT !.detector = "impedance",
                                    !.measurements = measurements]
        i == FirstPickup(w, measurements)
    IN  IF f = 0 \/ ~w.faults[f].is_active THEN [w |-> w, det |-> miss]
        ELSE IF i = 0 THEN [w |-> w, det |-> miss]
        ELSE LET line_id == measurements[i].line_id
                 rho == measurements[i].reach
                 estimated_pos == RatMin(One, rho)
                 result == [miss EXCEPT !.detected = TRUE, !.line_id = line_id,
                                        !.estimated_position = estimated_pos,
                                        !.zone = Zone(rho),
                                        !.confidence = Confidence(Zone(rho), rho)]
                 faults1 == IF is_line_fault(w.faults[f])
                               /\ w.faults[f].element_id = line_id
                            THEN [w.faults EXCEPT ![f].detected = TRUE,
                                      ![f].detected_location = estimated_pos]
                            ELSE w.faults
             IN  [w |-> [w EXCEPT !.faults = faults1], det |-> result]

impedance_detect_fault(w, f) ==
    {impedance_detect_with(w, f, m) : m \in simulate_measurements(w, f)}

\* GraphBasedDetector.  Voltages are in hundredths of a per-unit.
VoltageDeviation(bus) == Abs(NominalVoltagePu - bus.voltage_pu)
AffectedThreshold == 5
_find_affected_buses(g) ==
    {b \in get_bus_keys(g) : VoltageDeviation(DictGet(g.buses, b)) >= AffectedThreshold}

\* max(affected_buses, key = deviation): the first bus of the greatest
\* deviation, a set of small ints being iterated in ascending order.
max_drop_bus(g, affected) ==
    LET dev(b) == VoltageDeviation(DictGet(g.buses, b))
        top == {b \in affected : \A c \in affected : dev(c) <= dev(b)}
    IN  CHOOSE b \in top : \A c \in top : b <= c

_two_terminal_location(g, line) ==
    LET v_from == Abs(LineEndBus(g, line.from_bus).voltage_pu)
        v_to == Abs(LineEndBus(g, line.to_bus).voltage_pu)
        drop_from == NominalVoltagePu - v_from
        drop_to == NominalVoltagePu - v_to
        total_drop == drop_from + drop_to
    IN  IF v_from + v_to = 0 THEN Half
        ELSE IF total_drop <= 0 THEN Half
        ELSE IF drop_from < 0 THEN Ratio(0, 1)
        ELSE IF drop_from > total_drop THEN One
        ELSE Ratio(drop_from, total_drop)

FaultSection(bus_ids, line_ids, probability) ==
    [bus_ids |-> bus_ids, line_ids |-> line_ids, probability |-> probability]

FirstFlagged(d) ==
    LET flagged == {i \in DOMAIN d : d[i].is_faulted}
    IN  IF flagged = {} THEN 0 ELSE CHOOSE i \in flagged : \A j \in flagged : i <= j

_localize_fault(w, f, affected_buses) ==
    LET g == w.grid
        fault == w.faults[f]
        miss == [NoDetection EXCEPT !.detector = "graph"]
        l == FirstFlagged(g.lines)
        b == FirstFlagged(g.buses)
    IN  IF l # 0
        THEN LET line == g.lines[l]
                 estimated_pos == _two_terminal_location(g, line)
                 faults1 == IF is_line_fault(fault) /\ fault.element_id = line.id
                            THEN [w.faults EXCEPT ![f].detected = TRUE,
                                      ![f].detected_location = estimated_pos]
                            ELSE w.faults
             IN  [w |-> [w EXCEPT !.faults = faults1],
                  det |-> [miss EXCEPT !.detected = TRUE, !.line_id = line.id,
                              !.estimated_position = estimated_pos,
                              !.fault_sections =
                                  <<FaultSection({line.from_bus, line.to_bus},
                                                 {line.id}, 95)>>]]
        ELSE IF b # 0
        THEN LET bus == g.buses[b]
                 connected == get_connected_lines(g, bus.id)
                 faults1 == IF is_bus_fault(fault) /\ fault.element_id = bus.id
                            THEN [w.faults EXCEPT ![f].detected = TRUE]
                            ELSE w.faults
             IN  [w |-> [w EXCEPT !.faults = faults1],
                  det |-> [miss EXCEPT !.detected = TRUE, !.bus_id = bus.id,
                              !.fault_sections =
                                  <<FaultSection({bus.id},
                                        {g.lines[k].id : k \in connected},
                                        90)>>]]
        ELSE IF affected_buses # {}
        THEN [w |-> w,
              det |-> [miss EXCEPT !.detected = TRUE,
                          !.bus_id = max_drop_bus(g, affected_buses),
                          !.fault_sections =
                              <<FaultSection(affected_buses, {}, 50)>>]]
        ELSE [w |-> w, det |-> miss]

\* graph_detect_fault that looks at the voltages only.
graph_detect_fault_by_voltage(w, f) ==
    LET miss == [NoDetection EXCEPT !.detector = "graph"]
        affected_buses == _find_affected_buses(w.grid)
    IN  IF f = 0 \/ ~w.faults[f].is_active THEN [w |-> w, det |-> miss]
        ELSE IF affected_buses # {}
        THEN [w |-> w,
              det |-> [miss EXCEPT !.detected = TRUE,
                          !.bus_id = max_drop_bus(w.grid, affected_buses),
                          !.fault_sections =
                              <<FaultSection(affected_buses, {}, 50)>>]]
        ELSE [w |-> w, det |-> miss]

\* graph_detect_fault that does not ask whether the fault is still active.
graph_detect_fault_of_any_fault(w, f) ==
    IF f = 0
    THEN [w |-> w, det |-> [NoDetection EXCEPT !.detector = "graph"]]
    ELSE _localize_fault(w, f, _find_affected_buses(w.grid))

graph_detect_fault(w, f) ==
    IF f = 0 \/ ~w.faults[f].is_active
    THEN [w |-> w, det |-> [NoDetection EXCEPT !.detector = "graph"]]
    ELSE _localize_fault(w, f, _find_affected_buses(w.grid))

\* GraphBasedDetector.find_shortest_path: the queue holds (current, path)
\* pairs, and a neighbor that is the target ends the search before the
\* visited test.
Enqueue_in_front(queue, item) == <<item>> \o queue

Enqueue(queue, item) == Append(queue, item)

RECURSIVE NeighborLoop(_, _, _, _, _, _)
NeighborLoop(neighbors, k, path, to_bus_id, visited, queue) ==
    IF k > Len(neighbors)
    THEN [found |-> FALSE, path |-> <<>>, visited |-> visited, queue |-> queue]
    ELSE LET neighbor == neighbors[k]
         IN  IF neighbor = to_bus_id
             THEN [found |-> TRUE, path |-> Append(path, neighbor),
                   visited |-> visited, queue |-> queue]
             ELSE IF neighbor \notin visited
             THEN NeighborLoop(neighbors, k + 1, path, to_bus_id,
                      visited \cup {neighbor},
                      Enqueue(queue, [current |-> neighbor,
                                      path |-> Append(path, neighbor)]))
             ELSE NeighborLoop(neighbors, k + 1, path, to_bus_id, visited, queue)

RECURSIVE PathLoop(_, _, _, _)
PathLoop(g, to_bus_id, visited, queue) ==
    IF queue = <<>> THEN <<>>
    ELSE LET head == Head(queue)
             r == NeighborLoop(get_neighbors(g, head.current), 1, head.path,
                               to_bus_id, visited, Tail(queue))
         IN  IF r.found THEN r.path
             ELSE PathLoop(g, to_bus_id, r.visited, r.queue)

find_shortest_path(g, from_bus_id, to_bus_id) ==
    IF from_bus_id = to_bus_id THEN <<from_bus_id>>
    ELSE PathLoop(g, to_bus_id, {from_bus_id},
                  <<[current |-> from_bus_id, path |-> <<from_bus_id>>]>>)

(***************************************************************************)
(* The state machine.  op records the last call: its name, its argument    *)
(* (the key given to an inject call, the Fault given to clear_fault, 0     *)
(* otherwise), whether it raised, the Fault it returned (0 for None) and   *)
(* the sequence networks its fault calculation used.                       *)
(***************************************************************************)
World == [grid |-> grid, faults |-> faults, active_faults |-> active_faults,
          fault_currents |-> fault_currents]

Call(name, arg, raised, ret, nets) ==
    [name |-> name, arg |-> arg, raised |-> raised, ret |-> ret, nets |-> nets]

SetWorld(w) ==
    /\ grid' = w.grid
    /\ faults' = w.faults
    /\ active_faults' = w.active_faults
    /\ fault_currents' = w.fault_currents

PositionInputs == {15}
ResistanceInputs == {0}
UnknownBusKeys == BusKeys \cup {MaxBus + 1}
UnknownLineKeys == LineKeys \cup {MaxLine + 1}

AddBus(bus_id) ==
    /\ grid' = add_bus(grid, Bus(bus_id))
    /\ op' = Call("add_bus", 0, FALSE, 0, NoNets)
    /\ UNCHANGED <<faults, active_faults, fault_currents, pf, det, current_fault>>

AddLine(line_id, from_id, to_id, length_km) ==
    LET r == add_line(grid, TransmissionLine(line_id, from_id, to_id, length_km))
    IN  /\ grid' = r.grid
        /\ op' = Call("add_line", 0, r.raised, 0, NoNets)
        /\ UNCHANGED <<faults, active_faults, fault_currents, pf, det, current_fault>>

OpenLine(line_id) ==
    /\ line_id \in DictKeys(grid.lines)
    /\ grid' = [grid EXCEPT !.lines = DictPut(@, open_line(DictGet(@, line_id)))]
    /\ op' = Call("open_line", 0, FALSE, 0, NoNets)
    /\ UNCHANGED <<faults, active_faults, fault_currents, pf, det, current_fault>>

CloseLine(line_id) ==
    /\ line_id \in DictKeys(grid.lines)
    /\ grid' = [grid EXCEPT !.lines = DictPut(@, close_line(DictGet(@, line_id)))]
    /\ op' = Call("close_line", 0, FALSE, 0, NoNets)
    /\ UNCHANGED <<faults, active_faults, fault_currents, pf, det, current_fault>>

BuildYBus ==
    LET r == build_y_bus(grid)
    IN  /\ grid' = r.grid
        /\ op' = Call("build_y_bus", 0, r.raised, 0, NoNets)
        /\ UNCHANGED <<faults, active_faults, fault_currents, pf, det, current_fault>>

InjectBusFault(bus_id, fault_type, resistance) ==
    LET r == inject_bus_fault(World, bus_id, fault_type, resistance)
    IN  /\ SetWorld(r.w)
        /\ op' = Call("inject_bus_fault", bus_id, r.raised, r.ret, r.nets)
        /\ UNCHANGED <<pf, det, current_fault>>

InjectLineFault(line_id, fault_type, position, resistance) ==
    LET r == inject_line_fault(World, line_id, fault_type, position, resistance)
    IN  /\ SetWorld(r.w)
        /\ op' = Call("inject_line_fault", line_id, r.raised, r.ret, r.nets)
        /\ UNCHANGED <<pf, det, current_fault>>

ClearFault(f) ==
    /\ f \in DOMAIN faults
    /\ SetWorld(sim_clear_fault(World, f))
    /\ op' = Call("clear_fault", f, FALSE, 0, NoNets)
    /\ UNCHANGED <<pf, det, current_fault>>

ClearAllFaults ==
    /\ SetWorld(sim_clear_all_faults(World))
    /\ op' = Call("clear_all_faults", 0, FALSE, 0, NoNets)
    /\ UNCHANGED <<pf, det, current_fault>>

ImpedanceDetect(f) ==
    /\ f \in 0..Len(faults)
    /\ \E r \in impedance_detect_fault(World, f) :
          /\ SetWorld(r.w)
          /\ det' = r.det
    /\ op' = Call("impedance_detect", f, FALSE, 0, NoNets)
    /\ UNCHANGED <<pf, current_fault>>

GraphDetect(f) ==
    /\ f \in 0..Len(faults)
    /\ LET r == graph_detect_fault(World, f)
       IN  /\ SetWorld(r.w)
           /\ det' = r.det
    /\ op' = Call("graph_detect", f, FALSE, 0, NoNets)
    /\ UNCHANGED <<pf, current_fault>>

FindShortestPath(from_bus_id, to_bus_id) ==
    /\ det' = [NoDetection EXCEPT !.detector = "path",
                                  !.from_bus_id = from_bus_id,
                                  !.to_bus_id = to_bus_id,
                                  !.path = find_shortest_path(grid, from_bus_id,
                                                              to_bus_id)]
    /\ op' = Call("find_shortest_path", 0, FALSE, 0, NoNets)
    /\ UNCHANGED <<grid, faults, active_faults, fault_currents, pf,
                   current_fault>>

Solve ==
    \E r \in solve(pf, grid) :
        /\ grid' = r.grid
        /\ pf' = r.pf
        /\ op' = Call("solve", r.met, r.raised, IF r.ret THEN 1 ELSE 0, NoNets)
        /\ UNCHANGED <<faults, active_faults, fault_currents, det, current_fault>>

SetAsLoad(bus_id, p_load, q_load) ==
    /\ bus_id \in get_bus_keys(grid)
    /\ grid' = [grid EXCEPT !.buses =
                   DictPut(@, set_as_load(DictGet(@, bus_id), p_load, q_load))]
    /\ op' = Call("set_as_load", bus_id, FALSE, 0, NoNets)
    /\ UNCHANGED <<faults, active_faults, fault_currents, pf, det, current_fault>>

(***************************************************************************)
(* SpecGrid: the network is built from the empty grid, breakers are        *)
(* toggled and the Y-bus is queried.                                       *)
(***************************************************************************)
\* The (from-bus, to-bus) pairs offered to add_line: a parallel pair in both
\* directions, the next link of a chain, a self-loop.
EndInputs == {<<1, 2>>, <<2, 1>>, <<2, 3>>, <<2, 2>>}

InitGrid ==
    /\ grid = EmptyGrid
    /\ faults = <<>>
    /\ active_faults = <<>>
    /\ fault_currents = <<>>
    /\ pf = PowerFlow(MaxIterations)
    /\ op = Call("init", 0, FALSE, 0, NoNets)
    /\ det = NoDetection
    /\ current_fault = 0

NextGrid ==
    \/ \E b \in GridBusKeys : AddBus(b)
    \/ \E l \in LineKeys, e \in EndInputs :
          AddLine(l, e[1], e[2], LineLength(l))
    \/ \E l \in LineKeys : OpenLine(l)
    \/ \E l \in LineKeys : CloseLine(l)
    \/ BuildYBus

SpecGrid == InitGrid /\ [][NextGrid]_vars

(***************************************************************************)
(* Spec: faults are injected and cleared on networks that add_bus and      *)
(* add_line have built.                                                    *)
(***************************************************************************)
RECURSIVE Construct(_, _, _)
Construct(g, script, k) ==
    IF k > Len(script) THEN g
    ELSE LET c == script[k]
         IN  Construct(IF c.line = 0 THEN add_bus(g, Bus(c.bus))
                       ELSE add_line(g, TransmissionLine(c.line, c.from_bus,
                                                         c.to_bus, c.length_km)).grid,
                       script, k + 1)

B(bus_id) == [bus |-> bus_id, line |-> 0]
L(line_id, from_id, to_id) ==
    [line |-> line_id, from_bus |-> from_id, to_bus |-> to_id,
     length_km |-> LineLength(line_id)]

\* Two buses joined by two parallel lines; a chain of three buses; two buses
\* and a line whose add_line raised because its to-bus is missing.
Scripts ==
    { <<B(1), B(2), L(1, 1, 2), L(2, 1, 2)>>,
      <<B(1), B(2), B(3), L(1, 1, 2), L(2, 2, 3)>>,
      <<B(1), B(2), L(1, 1, 2), L(2, 2, 3)>> }

Init ==
    /\ grid \in {Construct(EmptyGrid, s, 1) : s \in Scripts}
    /\ faults = <<>>
    /\ active_faults = <<>>
    /\ fault_currents = <<>>
    /\ pf = PowerFlow(MaxIterations)
    /\ op = Call("init", 0, FALSE, 0, NoNets)
    /\ det = NoDetection
    /\ current_fault = 0

\* At most MaxFaults Fault objects are ever created.
HeapHasRoom == Len(faults) < MaxFaults

Next ==
    \/ \E b \in UnknownBusKeys, k \in FaultTypeInputs, r \in ResistanceInputs :
          HeapHasRoom /\ InjectBusFault(b, k, r)
    \/ \E l \in UnknownLineKeys, k \in FaultTypeInputs, p \in PositionInputs,
          r \in ResistanceInputs : HeapHasRoom /\ InjectLineFault(l, k, p, r)
    \/ \E f \in 1..MaxFaults : ClearFault(f)
    \/ ClearAllFaults
    \/ \E l \in LineKeys : OpenLine(l)
    \/ \E l \in LineKeys : CloseLine(l)
    \/ BuildYBus

Spec == Init /\ [][Next]_vars

(***************************************************************************)
(* SpecPF: the solver is run on a chain of a slack bus, a generator bus    *)
(* and a load bus, between changes of load, re-added buses and breaker     *)
(* operations.                                                             *)
(***************************************************************************)
MaxSolves == 2

SlackAngleInputs == {Angle(0, 0), Angle(30, 0)}
GenMw == 60
LoadMw == 50
LoadMvar == 20
LoadInputs == {LoadMw, 0}
DefaultQLoad == 0
\* The load bus and the line that feeds it are the ones operated on.
PfBusInputs == {3}
PfLineInputs == {2}

Configure(g, slack_angle) ==
    [g EXCEPT !.buses =
        DictPut(DictPut(DictPut(@,
            set_as_slack(DictGet(@, 1), NominalVoltagePu, slack_angle)),
            set_as_generator(DictGet(@, 2), GenMw, 0, NominalVoltagePu)),
            set_as_load(DictGet(@, 3), LoadMw, LoadMvar))]

InitPF ==
    /\ grid \in {Configure(Construct(EmptyGrid,
                     <<B(1), B(2), B(3), L(1, 1, 2), L(2, 2, 3)>>, 1), a) :
                 a \in SlackAngleInputs}
    /\ faults = <<>>
    /\ active_faults = <<>>
    /\ fault_currents = <<>>
    /\ pf = PowerFlow(MaxIterations)
    /\ op = Call("init", 0, FALSE, 0, NoNets)
    /\ det = NoDetection
    /\ current_fault = 0

NextPF ==
    \/ pf.solves < MaxSolves /\ Solve
    \/ \E b \in PfBusInputs, p \in LoadInputs : SetAsLoad(b, p, DefaultQLoad)
    \/ \E b \in PfBusInputs : AddBus(b)
    \/ \E l \in PfLineInputs : OpenLine(l)
    \/ \E l \in PfLineInputs : CloseLine(l)

SpecPF == InitPF /\ [][NextPF]_vars

(***************************************************************************)
(* SpecDetect: the two detectors are run on a chain of three buses whose   *)
(* slack and generator voltages have been set, between injections and      *)
(* clearings of faults and breaker closings.                               *)
(***************************************************************************)
MaxDetectFaults == 2

\* The slack and the generator voltage, in hundredths of a per-unit.
\* At <<190, 62>> line 1 measures 190 / 128 and line 2 measures 62 / 38 of
\* its impedance in normal operation, and the voltage drops along line 1
\* are -0.90 and 0.38.
VoltageInputs == {<<100, 100>>, <<190, 62>>}
DetectFaultTypes == {"slg", "open"}
\* Tenths of the line, before the clamp.
DetectPositions == {-5, 8, 15}
DetectBusInputs == {2}
DetectBusFaultTypes == {"slg"}
\* The breaker that is closed by hand.
DetectLineInputs == {1}

ConfigureVoltages(g, v_slack, v_gen) ==
    [g EXCEPT !.buses =
        DictPut(DictPut(@,
            set_as_slack(DictGet(@, 1), v_slack, Angle(0, 0))),
            set_as_generator(DictGet(@, 2), GenMw, 0, v_gen))]

InitDetect ==
    /\ grid \in {ConfigureVoltages(Construct(EmptyGrid,
                     <<B(1), B(2), B(3), L(1, 1, 2), L(2, 2, 3)>>, 1), v[1], v[2]) :
                 v \in VoltageInputs}
    /\ faults = <<>>
    /\ active_faults = <<>>
    /\ fault_currents = <<>>
    /\ pf = PowerFlow(MaxIterations)
    /\ op = Call("init", 0, FALSE, 0, NoNets)
    /\ det = NoDetection
    /\ current_fault = 0

NextDetect ==
    \/ \E l \in LineKeys, k \in DetectFaultTypes, p \in DetectPositions :
          Len(faults) < MaxDetectFaults /\ InjectLineFault(l, k, p, 0)
    \/ \E b \in DetectBusInputs, k \in DetectBusFaultTypes :
          Len(faults) < MaxDetectFaults /\ InjectBusFault(b, k, 0)
    \/ \E f \in 1..MaxDetectFaults : ClearFault(f)
    \/ \E l \in DetectLineInputs : CloseLine(l)
    \/ \E f \in 0..MaxDetectFaults : ImpedanceDetect(f)
    \/ \E f \in 0..MaxDetectFaults : GraphDetect(f)

SpecDetect == InitDetect /\ [][NextDetect]_vars

(***************************************************************************)
(* SpecSim: the simulator's own four operations, on two buses joined by    *)
(* two parallel lines and on two buses with a second line whose add_line   *)
(* raised because its from-bus is missing.                                 *)
(***************************************************************************)
SimScripts ==
    { <<B(1), B(2), L(1, 1, 2), L(2, 1, 2)>>,
      <<B(1), B(2), L(1, 1, 2), L(2, 3, 2)>> }

InitSim ==
    /\ grid \in {Construct(EmptyGrid, s, 1) : s \in SimScripts}
    /\ faults = <<>>
    /\ active_faults = <<>>
    /\ fault_currents = <<>>
    /\ pf = PowerFlow(MaxIterations)
    /\ op = Call("init", 0, FALSE, 0, NoNets)
    /\ det = NoDetection
    /\ current_fault = 0

NextSim ==
    \/ \E b \in UnknownBusKeys, k \in FaultTypeInputs, r \in ResistanceInputs :
          HeapHasRoom /\ InjectBusFault(b, k, r)
    \/ \E l \in UnknownLineKeys, k \in FaultTypeInputs, p \in PositionInputs,
          r \in ResistanceInputs : HeapHasRoom /\ InjectLineFault(l, k, p, r)
    \/ \E f \in 1..MaxFaults : ClearFault(f)
    \/ ClearAllFaults

SpecSim == InitSim /\ [][NextSim]_vars

(***************************************************************************)
(* SpecPath: shortest paths are asked for on networks of up to five buses  *)
(* between breaker operations and a bus that is added again.               *)
(***************************************************************************)
MaxPathBus == 5
PathBusKeys == 1..(MaxPathBus + 1)
PathLineKeys == {1, 2}
PathBusInputs == {2}

\* Bus 5 two hops from bus 1 over bus 2 and three hops over buses 3 and 4;
\* a line and a bus apart from it; a second line whose add_line raised
\* because its to-bus is missing.
PathScripts ==
    { <<B(1), B(2), B(3), B(4), B(5), L(1, 1, 2), L(2, 1, 3), L(3, 3, 4),
        L(4, 4, 5), L(5, 2, 5)>>,
      <<B(1), B(2), B(3), L(1, 1, 2)>>,
      <<B(1), B(2), L(1, 1, 2), L(2, 2, 3)>> }

InitPath ==
    /\ grid \in {Construct(EmptyGrid, s, 1) : s \in PathScripts}
    /\ faults = <<>>
    /\ active_faults = <<>>
    /\ fault_currents = <<>>
    /\ pf = PowerFlow(MaxIterations)
    /\ op = Call("init", 0, FALSE, 0, NoNets)
    /\ det = NoDetection
    /\ current_fault = 0

NextPath ==
    \/ \E a \in PathBusKeys, b \in PathBusKeys : FindShortestPath(a, b)
    \/ \E l \in PathLineKeys : OpenLine(l)
    \/ \E l \in PathLineKeys : CloseLine(l)
    \/ \E b \in PathBusInputs : AddBus(b)

SpecPath == InitPath /\ [][NextPath]_vars

(***************************************************************************)
(* ElectricityGridSimulator: the handlers of the application.  Each is the *)
(* set of its outcomes: the simulator state, the solver, the detectors'    *)
(* last result and current_fault (0 for None) that it leaves behind.       *)
(***************************************************************************)
_handle_clear_faults(w, pfr) ==
    LET w1 == sim_clear_all_faults(w)
    IN  {[w |-> [w1 EXCEPT !.grid = r.grid], pf |-> r.pf, det |-> NoDetection,
          current_fault |-> 0, raised |-> r.raised] : r \in solve(pfr, w1.grid)}

\* _handle_inject_fault without clearing the existing faults first.
_handle_inject_fault_on_top(w, pfr, location_type, element_id, fault_type, position, resistance) ==
    LET r == IF location_type = "line"
             THEN inject_line_fault(w, element_id, fault_type, position, resistance)
             ELSE inject_bus_fault(w, element_id, fault_type, resistance)
    IN  {[w |-> r.w, pf |-> pfr, det |-> NoDetection,
          current_fault |-> r.ret, raised |-> r.raised]}

\* An exception of the clearing or of the injection ends the handler before
\* current_fault is assigned again.
_handle_inject_fault(w, pfr, location_type, element_id, fault_type, position, resistance) ==
    {IF c.raised THEN c
     ELSE LET r == IF location_type = "line"
                   THEN inject_line_fault(c.w, element_id, fault_type, position,
                                          resistance)
                   ELSE inject_bus_fault(c.w, element_id, fault_type, resistance)
          IN  [w |-> r.w, pf |-> c.pf, det |-> c.det,
               current_fault |-> r.ret, raised |-> r.raised] :
     c \in _handle_clear_faults(w, pfr)}

\* What inject_random_fault draws: a fault type, a line with a position in
\* tenths and a resistance in ohms or, the lines left aside, a bus with a
\* resistance; on a grid without lines and buses it injects nothing.
RandomFaultTypes == {"slg", "open"}
RandomPositions == {1, 9}
RandomResistances == {10}
RandomBusResistances == {5}

_handle_random_fault(w, pfr) ==
    UNION {_handle_inject_fault(w, pfr, "line", w.grid.lines[k].id, t, p, r) :
              k \in DOMAIN w.grid.lines, t \in RandomFaultTypes,
              p \in RandomPositions, r \in RandomResistances}
    \cup
    UNION {_handle_inject_fault(w, pfr, "bus", w.grid.buses[i].id, t,
                                DefaultPosition, r) :
              i \in DOMAIN w.grid.buses, t \in RandomFaultTypes,
              r \in RandomBusResistances}
    \cup
    {c \in _handle_clear_faults(w, pfr) :
        w.grid.lines = <<>> /\ w.grid.buses = <<>>}

\* The impedance detector runs first, then the graph detector.
_handle_run_detection(w, cf, d) ==
    IF cf = 0 \/ ~w.faults[cf].is_active THEN {[w |-> w, det |-> d]}
    ELSE {LET g == graph_detect_fault(i.w, cf)
          IN  [w |-> g.w,
               det |-> [g.det EXCEPT !.measurements = i.det.measurements]] :
          i \in impedance_detect_fault(w, cf)}

SetApp(r) ==
    /\ SetWorld(r.w)
    /\ pf' = r.pf
    /\ det' = r.det
    /\ current_fault' = r.current_fault

HandleClearFaults ==
    \E r \in _handle_clear_faults(World, pf) :
        /\ SetApp(r)
        /\ op' = Call("_handle_clear_faults", 0, r.raised, 0, NoNets)

HandleInjectFault(location_type, element_id, fault_type, position, resistance) ==
    \E r \in _handle_inject_fault(World, pf, location_type, element_id,
                                  fault_type, position, resistance) :
        /\ SetApp(r)
        /\ op' = Call("_handle_inject_fault", element_id, r.raised,
                      r.current_fault, NoNets)

HandleRandomFault ==
    \E r \in _handle_random_fault(World, pf) :
        /\ SetApp(r)
        /\ op' = Call("_handle_random_fault", 0, r.raised, r.current_fault,
                      NoNets)

HandleRunDetection ==
    /\ \E r \in _handle_run_detection(World, current_fault, det) :
          /\ SetWorld(r.w)
          /\ det' = r.det
    /\ op' = Call("_handle_run_detection", current_fault, FALSE, 0, NoNets)
    /\ UNCHANGED <<pf, current_fault>>

(***************************************************************************)
(* SpecApp: the application on a three-bus chain with a slack bus, a       *)
(* generator and a load, driven by its four handlers.  MaxAppFaults bounds *)
(* the Fault objects ever created and MaxAppSolves the runs of the solver. *)
(***************************************************************************)
MaxAppFaults == 2
MaxAppSolves == 2
MaxAppIterations == 1
LocationTypes == {"line", "bus"}
AppElementInputs == {2, 4}
AppPositions == {5}
AppResistances == {0}

InitApp ==
    /\ grid = Configure(Construct(EmptyGrid,
                  <<B(1), B(2), B(3), L(1, 1, 2), L(2, 2, 3)>>, 1), Angle(0, 0))
    /\ faults = <<>>
    /\ active_faults = <<>>
    /\ fault_currents = <<>>
    /\ pf = PowerFlow(MaxAppIterations)
    /\ op = Call("init", 0, FALSE, 0, NoNets)
    /\ det = NoDetection
    /\ current_fault = 0

AppHasRoom == Len(faults) < MaxAppFaults /\ pf.solves < MaxAppSolves

NextApp ==
    \/ \E t \in LocationTypes, e \in AppElementInputs, k \in FaultTypeInputs,
          p \in AppPositions, r \in AppResistances :
          AppHasRoom /\ HandleInjectFault(t, e, k, p, r)
    \/ AppHasRoom /\ HandleRandomFault
    \/ pf.solves < MaxAppSolves /\ HandleClearFaults
    \/ HandleRunDetection

SpecApp == InitApp /\ [][NextApp]_vars

(***************************************************************************)
(* What the claims speak of.                                               *)
(***************************************************************************)
RECURSIVE SumSeries(_, _)
SumSeries(g, S) ==
    IF S = {} THEN 0
    ELSE LET k == CHOOSE x \in S : TRUE
         IN  y_pu(g.lines[k]) + SumSeries(g, S \ {k})

RECURSIVE SumShunt(_, _)
SumShunt(g, S) ==
    IF S = {} THEN 0
    ELSE LET k == CHOOSE x \in S : TRUE
             l == g.lines[k]
         IN  (IF l.from_bus = l.to_bus THEN 2 * half_b_pu(l) ELSE half_b_pu(l))
             + SumShunt(g, S \ {k})

ClosedLines(g) == {k \in DOMAIN g.lines : g.lines[k].is_closed}

BusAt(g, i) == CHOOSE b \in get_bus_keys(g) : bus_id_to_idx(g, b) = i

\* The admittance matrix of the current buses and the currently closed
\* lines, entry by entry.
ExpectedMatrix(g, with_shunt) ==
    LET n == n_buses(g)
        Between(a, b) == {k \in ClosedLines(g) : LineJoins(g.lines[k], a, b)}
        At(a) == {k \in ClosedLines(g) : k \in get_connected_lines(g, a)}
    IN  [n |-> n,
         m |-> [ij \in (0..(n - 1)) \X (0..(n - 1)) |->
                  LET a == BusAt(g, ij[1])
                      b == BusAt(g, ij[2])
                  IN  IF a # b
                      THEN [y |-> 0 - SumSeries(g, Between(a, b)), b |-> 0]
                      ELSE [y |-> SumSeries(g, At(a) \ Between(a, a)),
                            b |-> IF with_shunt THEN SumShunt(g, At(a)) ELSE 0]]]

\* Every closed line joins two buses of the network.
WellFormed(g) ==
    \A k \in ClosedLines(g) :
        g.lines[k].from_bus \in get_bus_keys(g) /\ g.lines[k].to_bus \in get_bus_keys(g)

InjectCalls == {"inject_bus_fault", "inject_line_fault"}

\* C1: whenever the Y-bus cache is marked valid, the cached matrix is the
\* matrix of the current buses and the currently closed lines.
C1_CacheCoherent ==
    (grid.y_bus_valid /\ grid.y_bus # NoMatrix /\ WellFormed(grid))
        => grid.y_bus = ExpectedMatrix(grid, TRUE)

\* C2: every fault-current computation uses positive-, negative- and
\* zero-sequence matrices built from the lines closed at that moment.
C2_FreshSequenceNetworks ==
    (op.name \in InjectCalls /\ op.ret # 0)
        => /\ op.nets.z1 = ExpectedMatrix(grid, TRUE)
           /\ op.nets.z2 = ExpectedMatrix(grid, TRUE)
           /\ op.nets.z0 = ExpectedMatrix(grid, FALSE)

\* C3: after clear_fault or clear_all_faults the Y-bus cache is marked invalid.
C3_ClearInvalidates ==
    op.name \in {"clear_fault", "clear_all_faults"} => ~grid.y_bus_valid

\* C4: an add_line that fails on a missing endpoint leaves the line map, the
\* adjacency index and the cache validity flag as they were.
C4_RefusedBeforeMutation ==
    [][(op'.name = "add_line" /\ op'.raised)
          => /\ grid'.lines = grid.lines
             /\ grid'.adjacency = grid.adjacency
             /\ grid'.y_bus_valid = grid.y_bus_valid]_vars

UnknownKey(call) ==
    \/ call.name = "inject_bus_fault" /\ call.arg \notin get_bus_keys(grid)
    \/ call.name = "inject_line_fault" /\ call.arg \notin DictKeys(grid.lines)

\* C5: an inject call with an unknown bus or line key returns None and
\* changes nothing: no bus or line flag, no breaker, not the active faults,
\* the stored currents or the cache.
C5_NotFoundNoMutation ==
    [][UnknownKey(op')
          => /\ op'.ret = 0 /\ ~op'.raised
             /\ grid' = grid
             /\ faults' = faults
             /\ active_faults' = active_faults
             /\ fault_currents' = fault_currents]_vars

C5_Witness ==
    /\ UnknownKey(op)
    /\ active_faults # <<>>
    /\ fault_currents # <<>>
    /\ grid.y_bus_valid
    /\ \E k \in DOMAIN grid.lines : ~grid.lines[k].is_closed

RECURSIVE ClosedReach(_, _)
ClosedReach(g, S) ==
    LET more == {b \in get_bus_keys(g) :
                    \E a \in S, k \in ClosedLines(g) : LineJoins(g.lines[k], a, b)}
    IN  IF more \subseteq S THEN S ELSE ClosedReach(g, S \cup more)

\* There is a path from a to b that uses only closed lines.
ClosedPath(g, a, b) == b \in ClosedReach(g, {a})

SameSection(g, a, b) ==
    LET sections == get_network_sections(g)
    IN  \E i \in DOMAIN sections : a \in sections[i] /\ b \in sections[i]

\* C7: two buses are in the same section of get_network_sections if and
\* only if a path of closed lines joins them.
C7_SectionsAreComponents ==
    \A a \in get_bus_keys(grid), b \in get_bus_keys(grid) :
        SameSection(grid, a, b) <=> ClosedPath(grid, a, b)

ThreeBusChain(g) ==
    /\ get_bus_keys(g) = {1, 2, 3}
    /\ Len(g.lines) = 2
    /\ LineJoins(g.lines[1], 1, 2)
    /\ LineJoins(g.lines[2], 2, 3)

\* C8: a bus all of whose incident lines are open is a section by itself;
\* on the three-bus chain with the line to the tail bus open, the sections
\* are the head pair and the tail bus.
C8_OpenIslanding ==
    LET sections == get_network_sections(grid)
    IN  /\ \A b \in get_bus_keys(grid) :
              (\A k \in get_connected_lines(grid, b) : ~grid.lines[k].is_closed)
                  => \E i \in DOMAIN sections : sections[i] = {b}
        /\ (ThreeBusChain(grid) /\ grid.lines[1].is_closed /\ ~grid.lines[2].is_closed)
              => sections = <<{1, 2}, {3}>>

C8_Witness ==
    /\ ThreeBusChain(grid)
    /\ op.name = "inject_line_fault" /\ op.ret # 0
    /\ grid.lines[1].is_closed
    /\ ~grid.lines[2].is_closed /\ grid.lines[2].fault_type = "open"
    /\ get_network_sections(grid) = <<{1, 2}, {3}>>

ElementCleared(g, fault) ==
    IF is_bus_fault(fault)
    THEN \A i \in DOMAIN g.buses :
            g.buses[i].id = fault.element_id
                => ~g.buses[i].is_faulted /\ g.buses[i].fault_type = None
    ELSE \A k \in DOMAIN g.lines :
            g.lines[k].id = fault.element_id
                => ~g.lines[k].is_faulted /\ g.lines[k].fault_type = None

OpenLineFault(fault) == ~is_bus_fault(fault) /\ fault.fault_type = "open"

\* C9: clear_fault(f) leaves f inactive and out of the active list, with
\* its element's fault flag and kind cleared; the line of an active OPEN line
\* fault is closed afterwards, and for any other fault no breaker changes.
C9_ClearFaultRestores ==
    [][op'.name = "clear_fault"
          => LET f == op'.arg
             IN  /\ ~faults'[f].is_active
                 /\ f \notin SeqElems(active_faults')
                 /\ ElementCleared(grid', faults[f])
                 /\ (OpenLineFault(faults[f]) /\ faults[f].is_active)
                       => \A k \in DOMAIN grid'.lines :
                             grid'.lines[k].id = faults[f].element_id
                                 => grid'.lines[k].is_closed
                 /\ ~OpenLineFault(faults[f])
                       => \A k \in DOMAIN grid.lines :
                             grid'.lines[k].is_closed = grid.lines[k].is_closed]_vars

C9_Witness ==
    /\ op.name = "clear_fault"
    /\ OpenLineFault(faults[op.arg])
    /\ \E k \in DOMAIN grid.lines :
          grid.lines[k].id = faults[op.arg].element_id /\ grid.lines[k].is_closed
    /\ \E g \in SeqElems(active_faults) :
          [faults[g] EXCEPT !.is_active = FALSE] = faults[op.arg]

\* C10: after clear_all_faults the active list and the stored currents are
\* empty, every fault that was active is inactive, and no bus and no line
\* carries a fault flag or a fault kind.
C10_ClearAllClearsEverything ==
    [][op'.name = "clear_all_faults"
          => /\ active_faults' = <<>>
             /\ fault_currents' = <<>>
             /\ \A f \in DOMAIN faults : ~faults'[f].is_active
             /\ \A i \in DOMAIN grid'.buses :
                   ~grid'.buses[i].is_faulted /\ grid'.buses[i].fault_type = None
             /\ \A k \in DOMAIN grid'.lines :
                   ~grid'.lines[k].is_faulted /\ grid'.lines[k].fault_type = None]_vars

C10_Witness ==
    /\ op.name = "clear_all_faults"
    /\ Len(faults) = MaxFaults
    /\ \A f \in DOMAIN faults : ~faults[f].is_active
    /\ \E f \in DOMAIN faults : is_bus_fault(faults[f])
    /\ \E f \in DOMAIN faults : ~is_bus_fault(faults[f])

\* C6: a call of solve in which no iteration met the tolerance returns
\* converged = false, also when an earlier call on the same solver had
\* converged.
C6_NonConvergenceReported ==
    (op.name = "solve" /\ ~op.raised /\ op.arg = 0) => op.ret = 0

\* No OPEN fault was ever put on the line: none is recorded for it and it
\* does not carry the OPEN kind.
NeverOpenFaulted(line) ==
    /\ line.fault_type # "open"
    /\ \A f \in DOMAIN faults :
          ~(OpenLineFault(faults[f]) /\ faults[f].element_id = line.id)

\* C11: a line that is open without ever having had an OPEN fault is still
\* open after clear_all_faults, and after clear_fault of a fault on another
\* element.
C11_RecloseOnlyOpenFaultLines ==
    [][\A k \in DOMAIN grid.lines :
          (/\ ~grid.lines[k].is_closed
           /\ NeverOpenFaulted(grid.lines[k])
           /\ \/ op'.name = "clear_all_faults"
              \/ /\ op'.name = "clear_fault"
                 /\ \/ is_bus_fault(faults[op'.arg])
                    \/ faults[op'.arg].element_id # grid.lines[k].id)
              => ~grid'.lines[k].is_closed]_vars

\* C12: inject_line_fault on an existing line returns a Fault whose position
\* is within [0, 1] and equal to the line's fault location, appends it to the
\* active list, leaves the line flagged, and opens the breaker exactly when
\* the kind is OPEN (any other kind leaves the breaker as it was).
C12_LineFaultRecorded ==
    [][(op'.name = "inject_line_fault" /\ op'.arg \in DictKeys(grid.lines))
          => /\ ~op'.raised
             /\ op'.ret # 0
             /\ LET fault == faults'[op'.ret]
                    before == DictGet(grid.lines, op'.arg)
                    after == DictGet(grid'.lines, op'.arg)
                IN  /\ fault.position >= PositionZero
                    /\ fault.position <= PositionOne
                    /\ after.fault_location = fault.position
                    /\ active_faults' = Append(active_faults, op'.ret)
                    /\ after.is_faulted
                    /\ after.fault_type = fault.fault_type
                    /\ after.is_closed =
                          (before.is_closed /\ fault.fault_type # "open")]_vars

\* C13: no line in the line map joins a bus to itself, and no bus is in its
\* own adjacency list.
C13_NoSelfLoop ==
    /\ \A k \in DOMAIN grid.lines : grid.lines[k].from_bus # grid.lines[k].to_bus
    /\ \A b \in DOMAIN grid.adjacency : b \notin SeqElems(grid.adjacency[b])

\* C14: adjacency is symmetric, and b is in the adjacency list of a exactly
\* when some line of the line map joins a and b.
C14_AdjacencyDerived ==
    /\ \A a \in DOMAIN grid.adjacency, b \in DOMAIN grid.adjacency :
          (b \in SeqElems(grid.adjacency[a])) <=> (a \in SeqElems(grid.adjacency[b]))
    /\ \A a \in get_bus_keys(grid), b \in BusKeys :
          (b \in SeqElems(get_neighbors(grid, a)))
              <=> (\E k \in DOMAIN grid.lines : LineJoins(grid.lines[k], a, b))

\* C15: a line whose breaker is open has recorded current, power flow and
\* loading percent of zero.
C15_OpenLineNoFlow ==
    \A k \in DOMAIN grid.lines :
        ~grid.lines[k].is_closed
            => /\ grid.lines[k].current_pu = 0
               /\ grid.lines[k].power_flow_mw = 0
               /\ grid.lines[k].loading_percent = 0

\* C16: solve leaves the slack bus's voltage magnitude and angle, and every
\* generator bus's voltage magnitude, as they were before the call.
C16_SolveHoldsFixed ==
    [][op'.name = "solve"
          => \A i \in DOMAIN grid.buses :
                /\ grid.buses[i].bus_type = "slack"
                      => /\ grid'.buses[i].voltage_pu = grid.buses[i].voltage_pu
                         /\ grid'.buses[i].angle_deg = grid.buses[i].angle_deg
                /\ grid.buses[i].bus_type = "pv"
                      => grid'.buses[i].voltage_pu = grid.buses[i].voltage_pu]_vars

\* The zone table of the reach ratio, written out in hundredths.
ReachZone(rho) ==
    IF rho.den = 0 THEN 0
    ELSE IF 100 * rho.num <= 80 * rho.den THEN 1
    ELSE IF 100 * rho.num <= 120 * rho.den THEN 2
    ELSE IF 100 * rho.num <= 150 * rho.den THEN 3
    ELSE 0

ImpedanceRan ==
    /\ op.name = "impedance_detect"
    /\ op.arg # 0
    /\ faults[op.arg].is_active

\* C17: when the impedance detector has been run on an active fault, the line
\* it reports is the first measured line whose reach ratio rho is at most
\* 1.50, the zone is 1 for rho <= 0.80, 2 for 0.80 < rho <= 1.20 and 3 for
\* 1.20 < rho <= 1.50, the estimated position is min(rho, 1.0), and nothing is
\* picked up when every measured line has rho > 1.50.
C17_ZoneByReachRatio ==
    ImpedanceRan =>
        LET m == det.measurements
            hits == {i \in DOMAIN m : ReachZone(m[i].reach) # 0}
        IN  IF hits = {} THEN ~det.detected
            ELSE LET i == CHOOSE h \in hits : \A j \in hits : h <= j
                     rho == m[i].reach
                 IN  /\ det.detected
                     /\ det.line_id = m[i].line_id
                     /\ det.zone = ReachZone(rho)
                     /\ IF rho.num <= rho.den
                        THEN RatEq(det.estimated_position, rho)
                        ELSE RatEq(det.estimated_position, One)

\* A zone-2 pickup beyond the end of the line, reported at position 1.0.
C17_Witness ==
    /\ ImpedanceRan
    /\ det.detected
    /\ det.zone = 2
    /\ RatEq(det.estimated_position, One)
    /\ \E i \in DOMAIN det.measurements :
          /\ det.measurements[i].line_id = det.line_id
          /\ RatLess(One, det.measurements[i].reach)

\* The impedance detector has been run on an active bolted line fault that
\* is the one flagged on its line, measured from a live bus.
BoltedLineFaultMeasured ==
    /\ ImpedanceRan
    /\ is_line_fault(faults[op.arg])
    /\ faults[op.arg].resistance = 0
    /\ faults[op.arg].element_id \in DictKeys(grid.lines)
    /\ LET line == DictGet(grid.lines, faults[op.arg].element_id)
       IN  /\ line.is_faulted
           /\ line.fault_location = faults[op.arg].position
           /\ LineEndBus(grid, line.from_bus).voltage_pu # 0

FaultedLine == DictGet(grid.lines, faults[op.arg].element_id)

\* The reach ratio the detector has measured on the faulted line.
SeenReach ==
    LET i == CHOOSE j \in DOMAIN det.measurements :
                 det.measurements[j].line_id = FaultedLine.id
    IN  det.measurements[i].reach

\* The reach ratios the same fault would be measured with at position alpha.
ReachAt(alpha) ==
    FaultReach([FaultedLine EXCEPT !.fault_location = alpha], faults[op.arg],
               LineEndBus(grid, FaultedLine.from_bus))

\* The reach ratio seen at every smaller position is smaller.
ReachIncreases ==
    \A alpha \in PositionZero..PositionOne :
        alpha < FaultedLine.fault_location
            => \A r \in ReachAt(alpha) : RatLess(r, SeenReach)

GraphRan ==
    /\ op.name = "graph_detect"
    /\ op.arg # 0
    /\ faults[op.arg].is_active

FlaggedLines == {k \in DOMAIN grid.lines : grid.lines[k].is_faulted}
FlaggedBuses == {i \in DOMAIN grid.buses : grid.buses[i].is_faulted}
IncidentLines(bus_id) ==
    {grid.lines[k].id : k \in {j \in DOMAIN grid.lines :
                                  bus_id \in {grid.lines[j].from_bus,
                                              grid.lines[j].to_bus}}}

\* drop_from / (drop_from + drop_to) of the voltage magnitudes at the ends
\* of a line, clamped to [0, 1], or 0.5 when the drops do not add up to
\* anything: est is that quotient.
IsTwoTerminalEstimate(line, est) ==
    LET drop_from == NominalVoltagePu - Abs(DictGet(grid.buses, line.from_bus).voltage_pu)
        drop_to == NominalVoltagePu - Abs(DictGet(grid.buses, line.to_bus).voltage_pu)
    IN  /\ est.den > 0
        /\ IF drop_from + drop_to <= 0 THEN 2 * est.num = est.den
           ELSE IF drop_from < 0 THEN est.num = 0
           ELSE IF drop_to < 0 THEN est.num = est.den
           ELSE est.num * (drop_from + drop_to) = drop_from * est.den

\* C19: when the graph detector has been run on an active fault, then if a
\* line carries the fault flag it reports a flagged line with the
\* two-terminal position estimate and one section of confidence 0.95; else
\* if a bus carries the flag it reports a flagged bus with one section of
\* exactly the lines incident to it and confidence 0.90; a section of
\* confidence 0.50 is reported only when no line and no bus is flagged.
C19_DirectIndicatorsFirst ==
    GraphRan =>
        /\ FlaggedLines # {} =>
              /\ det.detected
              /\ \E k \in FlaggedLines :
                    /\ det.line_id = grid.lines[k].id
                    /\ IsTwoTerminalEstimate(grid.lines[k], det.estimated_position)
                    /\ Len(det.fault_sections) = 1
                    /\ det.fault_sections[1].line_ids = {grid.lines[k].id}
                    /\ det.fault_sections[1].probability = 95
        /\ (FlaggedLines = {} /\ FlaggedBuses # {}) =>
              /\ det.detected
              /\ det.line_id = 0
              /\ \E i \in FlaggedBuses :
                    /\ det.bus_id = grid.buses[i].id
                    /\ Len(det.fault_sections) = 1
                    /\ det.fault_sections[1].bus_ids = {grid.buses[i].id}
                    /\ det.fault_sections[1].line_ids = IncidentLines(grid.buses[i].id)
                    /\ det.fault_sections[1].probability = 90
        /\ (\E s \in DOMAIN det.fault_sections : det.fault_sections[s].probability = 50)
              => FlaggedLines = {} /\ FlaggedBuses = {}

\* A flagged line is reported while a bus carries the flag as well.
C19_Witness ==
    /\ GraphRan
    /\ FlaggedLines # {}
    /\ FlaggedBuses # {}
    /\ det.line_id # 0
    /\ det.fault_sections[1].probability = 95

\* The voltage-anomaly cluster is reported for an active fault that has left
\* no flag behind.
C19_ClusterWitness ==
    /\ GraphRan
    /\ FlaggedLines = {}
    /\ FlaggedBuses = {}
    /\ det.detected
    /\ det.fault_sections[1].probability = 50

\* The graph detector has been run on an active bolted line fault, has
\* reported the line the fault is on, and both ends of the line are at 1.0 pu.
BoltedFaultBetweenNominalBuses ==
    /\ GraphRan
    /\ is_line_fault(faults[op.arg])
    /\ faults[op.arg].resistance = 0
    /\ det.detected
    /\ det.line_id = faults[op.arg].element_id
    /\ det.line_id \in DictKeys(grid.lines)
    /\ LET line == DictGet(grid.lines, det.line_id)
       IN  /\ line.is_faulted
           /\ DictGet(grid.buses, line.from_bus).voltage_pu = NominalVoltagePu
           /\ DictGet(grid.buses, line.to_bus).voltage_pu = NominalVoltagePu

\* C20: for a bolted line fault injected at position alpha on a line between
\* two buses at 1.0 pu, the position the graph detector estimates is within
\* 10^-3 of alpha.
C20_TwoTerminalTracksPosition ==
    BoltedFaultBetweenNominalBuses =>
        LET alpha == faults[op.arg].position
            est == det.estimated_position
        IN  /\ est.den > 0
            /\ 1000 * Abs(PositionOne * est.num - alpha * est.den)
                  <= PositionOne * est.den

\* C21: an inject_bus_fault or inject_line_fault call that returns an OPEN
\* fault has stored a per-phase fault current for it, and that current is
\* (0, 0, 0).
C21_OpenFaultZeroCurrent ==
    [][(op'.name \in InjectCalls /\ op'.ret # 0 /\ faults'[op'.ret].fault_type = "open")
          => /\ op'.ret \in DOMAIN fault_currents'
             /\ fault_currents'[op'.ret].zero]_vars

BuildYBusReturned == op'.name = "build_y_bus" /\ ~op'.raised

\* C22: the matrix a build_y_bus call returns has one row and one column per
\* bus and Y[i][j] = Y[j][i] for all bus indices i and j; when the call has
\* assembled it, the entry off the diagonal at i, j is non-zero exactly when
\* a closed line joins the i-th and the j-th bus key in ascending order.
C22_YBusSymmetric ==
    [][BuildYBusReturned =>
          LET Y == grid'.y_bus
              Idx == 0..(n_buses(grid') - 1)
          IN  /\ Y.n = n_buses(grid')
              /\ \A i \in Idx, j \in Idx :
                    /\ Y.m[<<i, j>>] = Y.m[<<j, i>>]
                    /\ (i # j /\ ~grid.y_bus_valid)
                          => (Y.m[<<i, j>>].y # 0
                                <=> \E k \in ClosedLines(grid') :
                                       LineJoins(grid'.lines[k], BusAt(grid', i),
                                                 BusAt(grid', j)))]_vars

\* A built matrix with a line between bus 1 (row 0) and bus 2 (row 1), the
\* buses having been added in the order 2, 1.
C22_Witness ==
    /\ op.name = "build_y_bus"
    /\ ~op.raised
    /\ Len(grid.buses) = 2
    /\ grid.buses[1].id = 2
    /\ grid.y_bus.m[<<0, 1>>].y # 0

\* C23: when the impedance detector has been run, no line whose breaker is
\* open has a relay measurement, and the line of a pickup is not open.
C23_RelayOnlyOnClosedLines ==
    op.name = "impedance_detect" =>
        /\ \A i \in DOMAIN det.measurements :
              DictGet(grid.lines, det.measurements[i].line_id).is_closed
        /\ det.detected => DictGet(grid.lines, det.line_id).is_closed

\* The graph detector has reported a flagged line of the grid.
LineReported ==
    /\ GraphRan
    /\ det.detected
    /\ det.line_id \in DictKeys(grid.lines)

ReportedLine == DictGet(grid.lines, det.line_id)
DropFrom == NominalVoltagePu - Abs(DictGet(grid.buses, ReportedLine.from_bus).voltage_pu)
DropTo == NominalVoltagePu - Abs(DictGet(grid.buses, ReportedLine.to_bus).voltage_pu)

\* est is num / den clamped to [0, 1], for den # 0.
IsClampedQuotient(est, num, den) ==
    LET n == IF den < 0 THEN 0 - num ELSE num
        d == Abs(den)
    IN  /\ est.den > 0
        /\ IF n <= 0 THEN est.num = 0
           ELSE IF n >= d THEN est.num = est.den
           ELSE est.num * d = n * est.den

\* C24: the position the graph detector estimates on the line it reports is
\* 0.5 when both voltage drops are zero or less, and otherwise
\* drop_from / (drop_from + drop_to) clamped to [0, 1], also when the drops
\* add up to less than zero.
C24_TwoTerminalFallbackOnlyWithoutDrops ==
    LineReported =>
        IF DropFrom <= 0 /\ DropTo <= 0
        THEN RatEq(det.estimated_position, Half)
        ELSE /\ DropFrom + DropTo # 0
             /\ IsClampedQuotient(det.estimated_position, DropFrom, DropFrom + DropTo)

\* The buses that the adjacency index lists for bus a.
Adjacent(g, a) == IF a \in DOMAIN g.adjacency THEN SeqElems(g.adjacency[a]) ELSE {}

\* The buses within k hops of bus a.
RECURSIVE WithinHops(_, _, _)
WithinHops(g, a, k) ==
    IF k = 0 THEN {a}
    ELSE LET S == WithinHops(g, a, k - 1)
         IN  S \cup UNION {Adjacent(g, b) : b \in S}

\* path is what the claim allows find_shortest_path(a, b) to return.
IsShortestPath(g, a, b, path) ==
    IF a = b THEN path = <<a>>
    ELSE IF b \notin WithinHops(g, a, MaxPathBus + 1) THEN path = <<>>
    ELSE /\ Len(path) >= 2
         /\ path[1] = a
         /\ path[Len(path)] = b
         /\ \A i \in 1..(Len(path) - 1) : path[i + 1] \in Adjacent(g, path[i])
         /\ b \in WithinHops(g, a, Len(path) - 1)
         /\ b \notin WithinHops(g, a, Len(path) - 2)

\* C25: find_shortest_path(a, b) returns [a] when a = b, the empty list
\* exactly when the adjacency index has no path from a to b, and otherwise a
\* list from a to b of adjacent buses with the least number of hops; opening
\* or closing a breaker changes no result.
C25_ShortestPath ==
    [][/\ op'.name = "find_shortest_path"
            => IsShortestPath(grid', det'.from_bus_id, det'.to_bus_id, det'.path)
       /\ op'.name \in {"open_line", "close_line"}
            => \A a \in PathBusKeys, b \in PathBusKeys :
                  find_shortest_path(grid', a, b) = find_shortest_path(grid, a, b)]_vars

\* The two-hop path from bus 1 to bus 5 is returned where a three-hop path
\* exists as well, with the breaker of its first line open.
C25_Witness ==
    /\ op.name = "find_shortest_path"
    /\ det.path = <<1, 2, 5>>
    /\ ~DictGet(grid.lines, 1).is_closed

\* The bus or line of a fault carries the fault flag (and a line of an OPEN
\* fault is open).
ElementMarked(g, fault) ==
    IF is_bus_fault(fault)
    THEN /\ fault.element_id \in get_bus_keys(g)
         /\ DictGet(g.buses, fault.element_id).is_faulted
    ELSE /\ fault.element_id \in DictKeys(g.lines)
         /\ DictGet(g.lines, fault.element_id).is_faulted
         /\ fault.fault_type = "open" => ~DictGet(g.lines, fault.element_id).is_closed

\* C26: every fault in the active-fault list has is_active = true, its bus
\* or line carries the fault flag, and the line of an active OPEN line fault
\* is open.
C26_ActiveFaultsMarked ==
    \A i \in DOMAIN active_faults :
        /\ faults[active_faults[i]].is_active
        /\ ElementMarked(grid, faults[active_faults[i]])

\* The graph detector has reported a flagged line or a flagged bus.
DirectIndicatorReported ==
    /\ GraphRan
    /\ det.detected
    /\ det.fault_sections[1].probability \in {95, 90}

\* C27: when the graph detector reports a flagged line or bus for the active
\* fault f it was called with, the reported element is the one f is on and
\* f.detected is true, with f.detected_location set when f is a line fault.
C27_ReportsTheFaultAskedAbout ==
    DirectIndicatorReported =>
        LET f == faults[op.arg]
        IN  /\ f.detected
            /\ IF is_line_fault(f)
               THEN /\ det.line_id = f.element_id
                    /\ f.detected_location # NoEstimate
               ELSE /\ det.line_id = 0
                    /\ det.bus_id = f.element_id

\* The element of the application's current fault, if there is one.
IsCurrentElement(location_type, element_id) ==
    /\ current_fault \in DOMAIN faults
    /\ faults[current_fault].location_type = location_type
    /\ faults[current_fault].element_id = element_id

\* C28: after any sequence of the application handlers the active-fault list
\* has at most one entry, current_fault is None or that single active fault,
\* and every bus or line other than current_fault's element carries no fault
\* flag and (a line) has its breaker closed.
C28_AtMostOneActiveFault ==
    /\ Len(active_faults) <= 1
    /\ current_fault # 0 =>
          /\ active_faults = <<current_fault>>
          /\ faults[current_fault].is_active
    /\ \A i \in DOMAIN grid.buses :
          ~IsCurrentElement("bus", grid.buses[i].id) => ~grid.buses[i].is_faulted
    /\ \A k \in DOMAIN grid.lines :
          ~IsCurrentElement("line", grid.lines[k].id) =>
              ~grid.lines[k].is_faulted /\ grid.lines[k].is_closed

\* A second fault was injected while the first was still active.
C28_Witness ==
    /\ op.name \in {"_handle_inject_fault", "_handle_random_fault"}
    /\ current_fault = 2
    /\ active_faults = <<2>>
    /\ ~faults[1].is_active
    /\ faults[1].element_id # faults[2].element_id

\* C29: the sets returned by get_network_sections are non-empty, pairwise
\* disjoint, and their union is exactly the set of bus keys of the network.
C29_SectionsPartitionBuses ==
    LET sections == get_network_sections(grid)
    IN  /\ \A i \in DOMAIN sections : sections[i] # {}
        /\ \A i \in DOMAIN sections, j \in DOMAIN sections :
              i # j => sections[i] \cap sections[j] = {}
        /\ UNION {sections[i] : i \in DOMAIN sections} = get_bus_keys(grid)

\* A detector was just called with no fault or with a fault that is not active.
DetectedNothingToDetect ==
    /\ op'.name \in {"impedance_detect", "graph_detect"}
    /\ op'.arg = 0 \/ ~faults[op'.arg].is_active

\* C30: detect_fault of either detector called with no fault or with a
\* cleared fault returns detected = false and changes neither the fault's
\* detected / detected_location fields nor any bus or line state, the
\* active-fault list or the stored fault currents.
C30_DetectionOnNoFaultIsPureMiss ==
    [][DetectedNothingToDetect =>
          /\ ~det'.detected
          /\ grid' = grid
          /\ faults' = faults
          /\ active_faults' = active_faults
          /\ fault_currents' = fault_currents]_vars

\* A detector was asked about a cleared fault while the fault flag of another,
\* active fault stood on a line.
C30_Witness ==
    /\ op.name \in {"impedance_detect", "graph_detect"}
    /\ op.arg \in DOMAIN faults
    /\ ~faults[op.arg].is_active
    /\ ~det.detected
    /\ \E i \in DOMAIN active_faults :
          /\ faults[active_faults[i]].is_active
          /\ ElementMarked(grid, faults[active_faults[i]])

====
